---- MODULE Spec2Model ----
(***************************************************************************)
(* Solution::closedIsland of src/corpus/Assignment1/main.cpp as a state    *)
(* machine.  One call of closedIsland runs from Enter to Line43; the       *)
(* recursion of the dfs lambda is an explicit call stack.  A caller that   *)
(* invokes closedIsland repeatedly on the same grid object is modelled by  *)
(* the counter calls and the list results of what each call returned.      *)
(***************************************************************************)
EXTENDS Integers, Sequences, FiniteSets

VARIABLES
    grid,      \* the argument vector<vector<int>>& grid, grid[i][j], 0-based
    grid0,     \* history: the value of grid when the caller built it
    n, m,      \* locals n, m (lines 7-8)
    visited,   \* local visited (line 9)
    order,     \* the four (di, dj) offsets of lines 16-19, in program order
    pc,        \* the line closedIsland is about to execute, "dfs" inside a fill
    i, j,      \* the loop variables of lines 23, 27, 34, 35
    count,     \* local count (line 33)
    stack,     \* the active dfs invocations, innermost last: [i, j, k]
    ret,       \* the line the outermost dfs invocation returns to
    calls,     \* number of calls of closedIsland started so far
    results    \* what each finished call returned, with its final visited

vars == <<grid, grid0, n, m, visited, order, pc, i, j, count, stack, ret, calls, results>>

(* ---------------------------------------------------------------- bounds *)
\* grids of every shape n x m with n * m <= MaxCells are explored
MaxCells == 9
\* number of calls of closedIsland the caller makes on one grid
MaxCalls == 2

(* ------------------------------------------------------------ input sets *)
\* a vector<vector<int>> given by its rows, as the 0-based grid[i][j]
FromRows(rows) ==
    [r \in 0..(Len(rows) - 1) |-> [c \in 0..(Len(rows[1]) - 1) |-> rows[r + 1][c + 1]]]

\* the concrete scenarios of the specification's section 8
Scenario1 == FromRows(<< <<1,1,1,1>>, <<1,0,0,1>>, <<1,0,0,1>>, <<1,1,1,1>> >>)
Scenario2 == FromRows(<< <<0,0,1,0,0>>, <<0,1,0,1,0>>, <<0,1,1,1,0>>, <<0,0,0,0,0>> >>)
Scenario3 == FromRows(<< <<1,1,1,1,1,1,1,0>>, <<1,0,0,0,0,1,1,0>>, <<1,0,1,0,1,1,1,0>>,
                         <<1,0,0,0,0,1,0,1>>, <<1,1,1,1,1,1,1,0>> >>)
\* a 5 x 5 grid whose 3 x 3 interior is a checkerboard of single-cell islands
Checkerboard5 == FromRows(<< <<1,1,1,1,1>>, <<1,0,1,0,1>>, <<1,1,0,1,1>>,
                             <<1,0,1,0,1>>, <<1,1,1,1,1>> >>)
\* a 3 x 5 grid with an interior land cell joined to the border, (1, 1), and
\* a closed island, (1, 3)
OpenAndClosed == FromRows(<< <<1,1,1,1,1>>, <<0,0,1,0,1>>, <<1,1,1,1,1>> >>)
ScenarioGrids == {Scenario1, Scenario2, Scenario3, Checkerboard5, OpenAndClosed}

\* every 0/1 grid with rows x cols cells
GridsOf(rows, cols) == [0..(rows - 1) -> [0..(cols - 1) -> {0, 1}]]

Rows(g) == Cardinality(DOMAIN g)
Cols(g) == Cardinality(DOMAIN g[0])

(* ------------------------------------------------------------ the lambda *)
\* variant of CodeOrder: line 19 repeats j+1 of line 18, so no call goes left
CodeOrderNoLeft == << <<1, 0>>, <<-1, 0>>, <<0, 1>>, <<0, 1>> >>

\* variant of CodeOrder: line 18 calls (i+1, j+1), a diagonal neighbour
CodeOrderDiag == << <<1, 0>>, <<-1, 0>>, <<1, 1>>, <<0, -1>> >>

\* lines 16-19: down, up, right, left
CodeOrder == << <<1, 0>>, <<-1, 0>>, <<0, 1>>, <<0, -1>> >>

\* every order in which the four recursive calls can be written
Perms == {p \in [1..4 -> {CodeOrder[k] : k \in 1..4}] :
            \A a, b \in 1..4 : a # b => p[a] # p[b]}

\* variant of dfsReturns: line 13 tests grid[i][j] == 0, taking 1 for land
dfsReturnsLandIsOne(g, v, rows, cols, ci, cj) ==
    ci < 0 \/ cj < 0 \/ ci >= rows \/ cj >= cols \/ g[ci][cj] = 0 \/ v[ci][cj] # 0

\* variant of dfsReturns: line 13 without the test grid[i][j] == 1
dfsReturnsNoWater(g, v, rows, cols, ci, cj) ==
    ci < 0 \/ cj < 0 \/ ci >= rows \/ cj >= cols \/ v[ci][cj] # 0

\* line 13: the condition under which dfs(ci, cj) returns at once
dfsReturns(g, v, rows, cols, ci, cj) ==
    ci < 0 \/ cj < 0 \/ ci >= rows \/ cj >= cols \/ g[ci][cj] = 1 \/ v[ci][cj] # 0

\* variant of dfsMark: the fill also sinks the cell, grid[i][j] = 1
dfsMarkSink(g, v, ci, cj) ==
    [grid |-> [g EXCEPT ![ci][cj] = 1], visited |-> [v EXCEPT ![ci][cj] = 1]]

\* line 15: the writes of one dfs invocation that passed line 13
dfsMark(g, v, ci, cj) ==
    [grid |-> g, visited |-> [v EXCEPT ![ci][cj] = 1]]

\* a call dfs(ci, cj, dfs) from closedIsland itself, returning to line retpc
CallRoot(ci, cj, retpc) ==
    IF dfsReturns(grid, visited, n, m, ci, cj)
    THEN /\ pc' = retpc
         /\ UNCHANGED <<grid, visited, stack, ret>>
    ELSE LET w == dfsMark(grid, visited, ci, cj) IN
         /\ grid' = w.grid
         /\ visited' = w.visited
         /\ stack' = << [i |-> ci, j |-> cj, k |-> 1] >>
         /\ ret' = retpc
         /\ pc' = "dfs"

\* variant of DfsCall: line 19 is missing, the third call is the last
DfsCallThree ==
    /\ pc = "dfs"
    /\ stack # << >>
    /\ LET top == stack[Len(stack)]
           ci  == top.i + order[top.k][1]
           cj  == top.j + order[top.k][2]
           caller == [stack EXCEPT ![Len(stack)].k = IF top.k = 3 THEN 5 ELSE top.k + 1]
       IN /\ top.k <= 3
          /\ IF ci < 0 \/ cj < 0 \/ ci >= n \/ cj >= m \/ grid[ci][cj] = 1
                \/ visited[ci][cj] # 0
             THEN /\ stack' = caller
                  /\ UNCHANGED <<grid, visited>>
             ELSE /\ grid' = grid
                  /\ visited' = [visited EXCEPT ![ci][cj] = 1]
                  /\ stack' = Append(caller, [i |-> ci, j |-> cj, k |-> 1])
    /\ UNCHANGED <<grid0, n, m, order, pc, i, j, count, ret, calls, results>>

\* lines 16-19: the innermost invocation makes its k-th recursive call; the
\* callee runs lines 13-15 and either returns at once or becomes innermost
DfsCall ==
    /\ pc = "dfs"
    /\ stack # << >>
    /\ LET top == stack[Len(stack)]
           ci  == top.i + order[top.k][1]
           cj  == top.j + order[top.k][2]
           caller == [stack EXCEPT ![Len(stack)].k = top.k + 1]
       IN /\ top.k <= 4
          /\ IF dfsReturns(grid, visited, n, m, ci, cj)
             THEN /\ stack' = caller
                  /\ UNCHANGED <<grid, visited>>
             ELSE LET w == dfsMark(grid, visited, ci, cj) IN
                  /\ grid' = w.grid
                  /\ visited' = w.visited
                  /\ stack' = Append(caller, [i |-> ci, j |-> cj, k |-> 1])
    /\ UNCHANGED <<grid0, n, m, order, pc, i, j, count, ret, calls, results>>

\* line 20: the innermost invocation has made its four calls and returns
DfsReturn ==
    /\ pc = "dfs"
    /\ stack # << >>
    /\ stack[Len(stack)].k = 5
    /\ stack' = SubSeq(stack, 1, Len(stack) - 1)
    /\ pc' = IF Len(stack) = 1 THEN ret ELSE "dfs"
    /\ UNCHANGED <<grid, grid0, n, m, visited, order, i, j, count, ret, calls, results>>

(* ---------------------------------------------------------- closedIsland *)
\* lines 6-9 and the initialisation of line 23, with the order of lines 16-19
EnterWith(o) ==
    /\ pc = "idle"
    /\ calls < MaxCalls
    /\ calls' = calls + 1
    /\ n' = Rows(grid)
    /\ m' = Cols(grid)
    /\ visited' = [r \in 0..(Rows(grid) - 1) |-> [c \in 0..(Cols(grid) - 1) |-> 0]]
    /\ order' = o
    /\ i' = 0
    /\ pc' = IF 0 < Rows(grid) THEN "L24" ELSE "L27"
    /\ UNCHANGED <<grid, grid0, j, count, stack, ret, results>>

Enter == EnterWith(CodeOrder)

Line24 ==
    /\ pc = "L24"
    /\ IF grid[i][0] = 0 /\ visited[i][0] = 0
       THEN CallRoot(i, 0, "L25")
       ELSE pc' = "L25" /\ UNCHANGED <<grid, visited, stack, ret>>
    /\ UNCHANGED <<grid0, n, m, order, i, j, count, calls, results>>

\* variant of Line25: the right column never seeds a fill
Line25Skip ==
    /\ pc = "L25"
    /\ pc' = "L23"
    /\ UNCHANGED <<grid, grid0, n, m, visited, order, i, j, count, stack, ret, calls, results>>

Line25 ==
    /\ pc = "L25"
    /\ IF grid[i][m - 1] = 0 /\ visited[i][m - 1] = 0
       THEN CallRoot(i, m - 1, "L23")
       ELSE pc' = "L23" /\ UNCHANGED <<grid, visited, stack, ret>>
    /\ UNCHANGED <<grid0, n, m, order, i, j, count, calls, results>>

\* variant of Line23: the loop of line 23 without its i++
Line23NoInc ==
    /\ pc = "L23"
    /\ i' = i
    /\ pc' = IF i < n THEN "L24" ELSE "L27"
    /\ UNCHANGED <<grid, grid0, n, m, visited, order, j, count, stack, ret, calls, results>>

\* line 23: i++ and the loop test; on exit, the initialisation of line 27
Line23 ==
    /\ pc = "L23"
    /\ i' = i + 1
    /\ pc' = IF i + 1 < n THEN "L24" ELSE "L27"
    /\ UNCHANGED <<grid, grid0, n, m, visited, order, j, count, stack, ret, calls, results>>

\* line 27: int j = 0 and the first loop test
Line27 ==
    /\ pc = "L27"
    /\ j' = 0
    /\ pc' = IF 0 < m THEN "L28" ELSE "L33"
    /\ UNCHANGED <<grid, grid0, n, m, visited, order, i, count, stack, ret, calls, results>>

Line28 ==
    /\ pc = "L28"
    /\ IF grid[0][j] = 0 /\ visited[0][j] = 0
       THEN CallRoot(0, j, "L29")
       ELSE pc' = "L29" /\ UNCHANGED <<grid, visited, stack, ret>>
    /\ UNCHANGED <<grid0, n, m, order, i, j, count, calls, results>>

\* variant of Line29: the bottom row never seeds a fill
Line29Skip ==
    /\ pc = "L29"
    /\ pc' = "L27inc"
    /\ UNCHANGED <<grid, grid0, n, m, visited, order, i, j, count, stack, ret, calls, results>>

Line29 ==
    /\ pc = "L29"
    /\ IF grid[n - 1][j] = 0 /\ visited[n - 1][j] = 0
       THEN CallRoot(n - 1, j, "L27inc")
       ELSE pc' = "L27inc" /\ UNCHANGED <<grid, visited, stack, ret>>
    /\ UNCHANGED <<grid0, n, m, order, i, j, count, calls, results>>

\* line 27: j++ and the loop test
Line27Inc ==
    /\ pc = "L27inc"
    /\ j' = j + 1
    /\ pc' = IF j + 1 < m THEN "L28" ELSE "L33"
    /\ UNCHANGED <<grid, grid0, n, m, visited, order, i, count, stack, ret, calls, results>>

\* line 33 and the initialisation of line 34
Line33 ==
    /\ pc = "L33"
    /\ count' = 0
    /\ i' = 1
    /\ pc' = "L34"
    /\ UNCHANGED <<grid, grid0, n, m, visited, order, j, stack, ret, calls, results>>

\* line 34: the outer loop test; when it holds, the initialisation of line 35
Line34 ==
    /\ pc = "L34"
    /\ IF i < n - 1
       THEN j' = 1 /\ pc' = "L35"
       ELSE j' = j /\ pc' = "L43"
    /\ UNCHANGED <<grid, grid0, n, m, visited, order, i, count, stack, ret, calls, results>>

\* line 35: the inner loop test; when it fails, the i++ of line 34
Line35 ==
    /\ pc = "L35"
    /\ IF j < m - 1
       THEN i' = i /\ pc' = "L36"
       ELSE i' = i + 1 /\ pc' = "L34"
    /\ UNCHANGED <<grid, grid0, n, m, visited, order, j, count, stack, ret, calls, results>>

\* variant of Line36: line 36 without the test !visited[i][j]
Line36NoVisited ==
    /\ pc = "L36"
    /\ IF grid[i][j] = 0
       THEN CallRoot(i, j, "L38") /\ j' = j
       ELSE /\ j' = j + 1
            /\ pc' = "L35"
            /\ UNCHANGED <<grid, visited, stack, ret>>
    /\ UNCHANGED <<grid0, n, m, order, i, count, calls, results>>

\* lines 36-37; when the condition fails, the j++ of line 35
Line36 ==
    /\ pc = "L36"
    /\ IF grid[i][j] = 0 /\ visited[i][j] = 0
       THEN CallRoot(i, j, "L38") /\ j' = j
       ELSE /\ j' = j + 1
            /\ pc' = "L35"
            /\ UNCHANGED <<grid, visited, stack, ret>>
    /\ UNCHANGED <<grid0, n, m, order, i, count, calls, results>>

\* line 38 and the j++ of line 35
Line38 ==
    /\ pc = "L38"
    /\ count' = count + 1
    /\ j' = j + 1
    /\ pc' = "L35"
    /\ UNCHANGED <<grid, grid0, n, m, visited, order, i, stack, ret, calls, results>>

\* line 43: the call returns count; its locals go out of scope
Line43 ==
    /\ pc = "L43"
    /\ results' = Append(results, [count |-> count, visited |-> visited])
    /\ pc' = "idle"
    /\ n' = 0 /\ m' = 0 /\ visited' = << >> /\ order' = CodeOrder
    /\ i' = 0 /\ j' = 0 /\ count' = 0 /\ ret' = "idle"
    /\ UNCHANGED <<grid, grid0, stack, calls>>

(* -------------------------------------------------------- specifications *)
Init ==
    /\ \/ \E rows \in 1..MaxCells, cols \in 1..MaxCells :
             /\ rows * cols <= MaxCells
             /\ grid \in GridsOf(rows, cols)
       \/ grid \in ScenarioGrids
    /\ grid0 = grid
    /\ n = 0 /\ m = 0 /\ visited = << >> /\ order = CodeOrder
    /\ pc = "idle" /\ i = 0 /\ j = 0 /\ count = 0
    /\ stack = << >> /\ ret = "idle"
    /\ calls = 0 /\ results = << >>

Body ==
    \/ Line24 \/ Line25 \/ Line23 \/ Line27 \/ Line28 \/ Line29 \/ Line27Inc
    \/ Line33 \/ Line34 \/ Line35 \/ Line36 \/ Line38 \/ Line43
    \/ DfsCall \/ DfsReturn

Next == Enter \/ Body

Spec == Init /\ [][Next]_vars

\* the same caller, whose first call runs a variant of closedIsland in which
\* the four recursive calls of lines 16-19 are written in any order, and whose
\* later calls run closedIsland as it is
EnterPerm ==
    /\ pc = "idle"
    /\ IF calls = 0 THEN \E o \in Perms : EnterWith(o) ELSE EnterWith(CodeOrder)

NextPerm == EnterPerm \/ Body

SpecPerm == Init /\ [][NextPerm]_vars

\* closedIsland is straight-line sequential code: a step that can be taken is taken
FairSpec == Spec /\ WF_vars(Next)

(* ------------------------------------------- the mathematical definition *)
Cells(g) == {<<r, c>> : r \in DOMAIN g, c \in DOMAIN g[0]}
IsLand(g, p) == g[p[1]][p[2]] = 0
Land(g) == {p \in Cells(g) : IsLand(g, p)}
OnBorder(g, p) ==
    p[1] = 0 \/ p[1] = Rows(g) - 1 \/ p[2] = 0 \/ p[2] = Cols(g) - 1
Abs(x) == IF x < 0 THEN -x ELSE x
Adjacent(p, q) == Abs(p[1] - q[1]) + Abs(p[2] - q[2]) = 1

\* the land cells joined to a cell of S by a 4-directional path of land cells
RECURSIVE Closure(_, _)
Closure(g, S) ==
    LET T == S \cup {p \in Land(g) : \E q \in S : Adjacent(p, q)}
    IN IF T = S THEN S ELSE Closure(g, T)

Component(g, p) == Closure(g, {p})
Regions(g) == {Component(g, p) : p \in Land(g)}
ClosedRegions(g) == {R \in Regions(g) : \A p \in R : ~OnBorder(g, p)}
BorderReachable(g) == Closure(g, {p \in Land(g) : OnBorder(g, p)})
InteriorLand(g) == {p \in Land(g) : ~OnBorder(g, p)}

Marked == {p \in Cells(grid) : visited[p[1]][p[2]] # 0}
\* closedIsland is not running and at least one call has returned
Returned == pc = "idle" /\ Len(results) >= 1

(* ----------------------------------------------------------------- claims *)
\* C1: every finished call returned exactly the number of maximal 4-connected
\* land regions of the input grid that contain no border cell
C1_CountsClosedRegions ==
    Returned => \A c \in 1..Len(results) : results[c].count = Cardinality(ClosedRegions(grid0))

\* a call on the 5 x 8 scenario, which has two closed islands, has returned
C1_Witness == Returned /\ grid0 = Scenario3 /\ results[1].count = 2

\* C2 as stated: on the 4 x 5 grid of scenario 2 closedIsland returns 0
C2_Original == (grid0 = Scenario2 /\ Returned) => results[1].count = 0

\* C2 amended: on the 4 x 5 grid of scenario 2 closedIsland returns 1; the
\* land cell (1, 2) has water on all four sides and is a closed island
C2_ReturnsOne == (grid0 = Scenario2 /\ Returned) => results[1].count = 1

C2_Witness == grid0 = Scenario2 /\ Returned

\* C3 as stated: the returned value never exceeds
\* floor((n-2)/2) * floor((m-2)/2)
C3_Original ==
    Returned => \A c \in 1..Len(results) :
        results[c].count <= ((Rows(grid0) - 2) \div 2) * ((Cols(grid0) - 2) \div 2)

Max0(x) == IF x < 0 THEN 0 ELSE x

\* C3 amended: the returned value never exceeds the number of interior land
\* cells, nor ceil(a * b / 2) where a = max(n-2, 0) and b = max(m-2, 0) are
\* the dimensions of the strict interior
C3_InteriorBound ==
    Returned => \A c \in 1..Len(results) :
        /\ results[c].count <= Cardinality(InteriorLand(grid0))
        /\ results[c].count <= (Max0(Rows(grid0) - 2) * Max0(Cols(grid0) - 2) + 1) \div 2

\* a call has returned 5 on the 5 x 5 checkerboard, where ceil(3 * 3 / 2) = 5
C3_Witness == Returned /\ grid0 = Checkerboard5 /\ results[1].count = 5

\* C4: on a grid whose cells are all land, of any shape, closedIsland returns 0
C4_AllLandZero ==
    (Returned /\ \A p \in Cells(grid0) : IsLand(grid0, p)) =>
        \A c \in 1..Len(results) : results[c].count = 0

\* a call on the 3 x 3 all-land grid has returned
C4_Witness ==
    /\ Returned
    /\ Rows(grid0) = 3 /\ Cols(grid0) = 3
    /\ \A p \in Cells(grid0) : IsLand(grid0, p)

\* C5: in every reachable state the grid has its initial value, and a second
\* call on the same grid returned the same count as the first
C5_GridUntouched ==
    /\ grid = grid0
    /\ Len(results) >= 2 => results[2].count = results[1].count

\* two calls have returned on a grid in which fills marked land in both passes
C5_Witness ==
    /\ Len(results) = 2
    /\ results[1].count >= 1
    /\ \E p \in Land(grid0) : OnBorder(grid0, p)

\* C6: every call of closedIsland the caller makes returns, with a count >= 0:
\* eventually all of them have returned for good; and the chain of active dfs
\* invocations never exceeds the number of cells
C6_Terminates ==
    /\ [](pc = "dfs" => Len(stack) <= n * m)
    /\ <>[](/\ pc = "idle"
            /\ Len(results) = MaxCalls
            /\ \A c \in 1..Len(results) : results[c].count >= 0)

\* a fill is four invocations deep
C6_Witness == pc = "dfs" /\ Len(stack) >= 4

\* C7: between the border pass and the counting pass the marked cells are
\* exactly the land cells on the border or joined to a border land cell by a
\* 4-directional path of land cells
C7_BorderPassMarks == pc = "L33" => Marked = BorderReachable(grid)

\* the border pass has ended with an interior land cell marked and another not
C7_Witness ==
    /\ pc = "L33"
    /\ \E p \in Marked : ~OnBorder(grid, p)
    /\ \E p \in Land(grid) : p \notin Marked

\* the cell of an active dfs invocation
FrameCell(f) == <<f.i, f.j>>

\* the regions among RR that have no border cell and some marked cell
StartedClosed(RR) ==
    {R \in RR : (\A p \in R : ~OnBorder(grid, p)) /\ R \cap Marked # {}}

\* every region of RR other than Q is marked wholly or not at all
OthersWhole(RR, Q) == \A R \in RR \ {Q} : R \subseteq Marked \/ R \cap Marked = {}

\* C8: a fill of the counting pass stays inside the region of its root, which
\* has no border cell; when the fill ends that region is wholly marked and no
\* other region has changed, and count is the number of closed regions filled
C8_FillIsOneClosedIsland ==
    LET RR == Regions(grid) IN
    /\ (pc = "dfs" /\ ret = "L38") =>
          LET Q == Component(grid, FrameCell(stack[1])) IN
          /\ Q \in RR
          /\ \A p \in Q : ~OnBorder(grid, p)
          /\ \A f \in 1..Len(stack) :
                FrameCell(stack[f]) \in Q /\ ~OnBorder(grid, FrameCell(stack[f]))
          /\ OthersWhole(RR, Q)
          /\ count + 1 = Cardinality(StartedClosed(RR))
    /\ pc = "L38" =>
          LET Q == Component(grid, <<i, j>>) IN
          /\ Q \in RR
          /\ \A p \in Q : ~OnBorder(grid, p)
          /\ Q \subseteq Marked
          /\ OthersWhole(RR, Q)
          /\ count + 1 = Cardinality(StartedClosed(RR))
    /\ pc \in {"L34", "L35", "L36", "L43"} =>
          /\ OthersWhole(RR, {})
          /\ count = Cardinality(StartedClosed(RR))

\* the second fill of a counting pass has just ended
C8_Witness == pc = "L38" /\ count = 1

\* C9: while a call runs, a mark is never cleared, only land cells are marked,
\* and every dfs invocation that gets past line 13, a traversal root included,
\* is on a land cell that was unmarked until that step
C9_MarkOnce ==
    [][(pc # "idle" /\ pc' # "idle") =>
          /\ \A p \in Cells(grid) :
                /\ visited[p[1]][p[2]] # 0 => visited'[p[1]][p[2]] # 0
                /\ (visited[p[1]][p[2]] = 0 /\ visited'[p[1]][p[2]] # 0) =>
                      /\ IsLand(grid, p)
                      /\ Len(stack') = Len(stack) + 1
                      /\ FrameCell(stack'[Len(stack')]) = p
          /\ Len(stack') > Len(stack) =>
                LET p == FrameCell(stack'[Len(stack')]) IN
                /\ IsLand(grid, p)
                /\ visited[p[1]][p[2]] = 0
                /\ visited'[p[1]][p[2]] # 0
      ]_vars

\* a fill of the counting pass is three invocations deep
C9_Witness == pc = "dfs" /\ ret = "L38" /\ Len(stack) >= 3

\* C10: a call whose four recursive calls are written in any other order
\* returns the same count and ends with the same visited cells as the call
\* with the order of the code
C10_OrderIrrelevant ==
    (pc = "idle" /\ Len(results) >= 2) =>
        \A c \in 2..Len(results) :
            /\ results[1].count = results[c].count
            /\ results[1].visited = results[c].visited

\* on the 5 x 8 scenario a first call, run with each of the 24 orders, has
\* returned 2 and a second call with the order of the code has returned
C10_Witness ==
    /\ pc = "idle"
    /\ grid0 = Scenario3
    /\ Len(results) = 2
    /\ results[1].count = 2

====
